---- MODULE Spec2Model ----
(***************************************************************************)
(* jar_conflict_detector (src/bin/jcd.rs): one run of main.                *)
(* Strings are sequences of one-character strings, so that split,          *)
(* starts_with, ends_with, file_name and the BTreeMap key order are        *)
(* computed character by character as the code computes them.              *)
(***************************************************************************)
EXTENDS Integers, Sequences, FiniteSets, TLC

VARIABLES pc, argv, args, paths, x, jar_name, jars, i, name_to_sources, result, out, notice

vars == <<pc, argv, args, paths, x, jar_name, jars, i, name_to_sources, result, out, notice>>

----------------------------------------------------------------------------
(* Bounds of the model *)

\* most paths joined into one --jars value
MaxJars == 2
\* most entries in the central directory of one archive
MaxEntries == 2

----------------------------------------------------------------------------
(* Strings *)

\* ASCII code of every character the model uses (String's Ord is byte-wise)
Byte(c) ==
    CASE c = "-" -> 45 [] c = "." -> 46 [] c = "/" -> 47 [] c = ";" -> 59
      [] c = "A" -> 65 [] c = "B" -> 66 [] c = "E" -> 69 [] c = "F" -> 70
      [] c = "I" -> 73 [] c = "M" -> 77 [] c = "N" -> 78 [] c = "O" -> 79
      [] c = "S" -> 83 [] c = "T" -> 84
      [] c = "a" -> 97 [] c = "b" -> 98 [] c = "c" -> 99 [] c = "d" -> 100
      [] c = "l" -> 108 [] c = "m" -> 109 [] c = "o" -> 111 [] c = "p" -> 112
      [] c = "r" -> 114 [] c = "s" -> 115

\* str::cmp: lexicographic on bytes, a proper prefix is smaller
RECURSIVE StrLess(_, _)
StrLess(a, b) ==
    IF b = <<>> THEN FALSE
    ELSE IF a = <<>> THEN TRUE
    ELSE IF Byte(Head(a)) # Byte(Head(b)) THEN Byte(Head(a)) < Byte(Head(b))
    ELSE StrLess(Tail(a), Tail(b))

\* str::starts_with
starts_with(s, p) == Len(p) <= Len(s) /\ SubSeq(s, 1, Len(p)) = p

\* str::ends_with
ends_with(s, p) == Len(p) <= Len(s) /\ SubSeq(s, Len(s) - Len(p) + 1, Len(s)) = p

\* str::split(sep): the segments between separators, empty ones kept;
\* acc holds the finished segments, cur the one being read
RECURSIVE SplitAcc(_, _, _, _)
SplitAcc(s, sep, acc, cur) ==
    IF s = <<>> THEN Append(acc, cur)
    ELSE IF Head(s) = sep THEN SplitAcc(Tail(s), sep, Append(acc, cur), <<>>)
    ELSE SplitAcc(Tail(s), sep, acc, Append(cur, Head(s)))

split(s, sep) == SplitAcc(s, sep, <<>>, <<>>)

\* the inverse direction, used to build --jars values: segments joined by sep
RECURSIVE Join(_, _)
Join(segs, sep) ==
    IF segs = <<>> THEN <<>>
    ELSE IF Len(segs) = 1 THEN segs[1]
    ELSE segs[1] \o <<sep>> \o Join(Tail(segs), sep)

\* Option::None where the value is a string (no file name is empty), and
\* where it is an enum value
NoString == <<>>
NoValue == "None"

\* Path::file_name for paths without "." and ".." components: the last
\* non-empty component, None when there is none ("" and "/")
file_name(path) ==
    LET comps == SelectSeq(split(path, "/"), LAMBDA c : c # <<>>)
    IN  IF comps = <<>> THEN NoString ELSE comps[Len(comps)]

----------------------------------------------------------------------------
(* Program constants *)

DISTINCT_FROM_NONE == 0

CLASS_SUFFIX == <<".", "c", "l", "a", "s", "s">>
META_INF == <<"M", "E", "T", "A", "-", "I", "N", "F">>

\* the values clap's ValueEnum derive accepts for -c/--check
CheckValues == {"size", "crc", "none"}

----------------------------------------------------------------------------
(* Inputs *)

FOO_CLASS == <<"F", "o", "o", ".", "c", "l", "a", "s", "s">>
P_BAR_CLASS == <<"p", "/", "B", "a", "r", ".", "c", "l", "a", "s", "s">>
MANIFEST_MF == META_INF \o <<"/", "M", "A", "N", "I", "F", "E", "S", "T", ".", "M", "F">>
METAINFO_FOO_CLASS == META_INF \o <<"O", "/">> \o FOO_CLASS

PassNames == {FOO_CLASS, P_BAR_CLASS}
SkipNames == {MANIFEST_MF, METAINFO_FOO_CLASS}
Names == PassNames \cup SkipNames

Sizes == {10, 20}
Crcs == {1, 2}

\* a central-directory entry: name, uncompressed size, crc32
Entry(n, s, c) == [name |-> n, size |-> s, crc32 |-> c]

EntrySet ==
    {Entry(n, s, c) : n \in PassNames, s \in Sizes, c \in Crcs}
        \cup {Entry(n, 10, 1) : n \in SkipNames}

PATH_A == <<"a">>
PATH_D_B == <<"d", "/", "b">>
PATH_M == <<"m">>
PATH_EMPTY == <<>>

\* files that exist and are archives / a path with no file behind it
GoodPaths == {PATH_A, PATH_D_B}
PathSet == GoodPaths \cup {PATH_M, PATH_EMPTY}

SeqsUpTo(S, n) == UNION {[1..k -> S] : k \in 0..n}

JarLists == {Join(ps, ";") : ps \in SeqsUpTo(PathSet, MaxJars) \ {<<>>}}

\* --jars absent (<<>>) or given once
JarsArgs == {<<>>} \cup {<<l>> : l \in JarLists}

\* -c absent (<<>>) or given once
CheckArgs == {<<>>} \cup {<<v>> : v \in CheckValues \cup {"none1"}}

ExcludeArgs == {<<>>, <<<<"p", "/">>>>}

Archives == SeqsUpTo(EntrySet, MaxEntries)

----------------------------------------------------------------------------
(* Pure functions of the program *)

\* Args::parse on -c/--check: the default is Size, an unlisted value is an error
parse_check(check_arg) ==
    IF check_arg = <<>> THEN "size"
    ELSE IF check_arg[1] \in CheckValues THEN check_arg[1]
    ELSE NoValue

\* a length check that lets a single path through
too_few_one(ps) == Len(ps) < 1

\* main, line 43
too_few(ps) == Len(ps) < 2

\* get_jar_name: the label is the file name of the path (a panic when None)
get_jar_name(path) == file_name(path)

\* get_distinct_from
get_distinct_from(zip_entry, check) ==
    CASE check = "crc" -> zip_entry.crc32
      [] check = "size" -> zip_entry.size
      [] check = "none" -> DISTINCT_FROM_NONE

\* filter
filter(name, excludes) ==
    IF ~ends_with(name, CLASS_SUFFIX) THEN FALSE
    ELSE IF starts_with(name, META_INF) THEN FALSE
    ELSE \A e \in 1..Len(excludes) : ~starts_with(name, excludes[e])

\* the empty BTreeMap / HashMap
EmptyMap == <<>>

RECURSIVE SumLabels(_, _)
SumLabels(v, ids) ==
    IF ids = {} THEN 0
    ELSE LET id == CHOOSE d \in ids : TRUE
         IN  Len(v[id]) + SumLabels(v, ids \ {id})

\* an insert that replaces the name's whole entry when the identity is new
insert_overwrite(idx, name, distinct_from, label) ==
    IF name \in DOMAIN idx /\ distinct_from \in DOMAIN idx[name]
    THEN [idx EXCEPT ![name][distinct_from] = Append(@, label)]
    ELSE (name :> (distinct_from :> <<label>>)) @@ idx

\* an insert that drops an observation whose identity is new for a known name
insert_keep_first(idx, name, distinct_from, label) ==
    IF name \in DOMAIN idx
    THEN IF distinct_from \in DOMAIN idx[name]
         THEN [idx EXCEPT ![name][distinct_from] = Append(@, label)]
         ELSE idx
    ELSE (name :> (distinct_from :> <<label>>)) @@ idx

\* an insert that does not push a label the bucket already holds
insert_dedup(idx, name, distinct_from, label) ==
    IF name \in DOMAIN idx
    THEN IF distinct_from \in DOMAIN idx[name]
         THEN IF \E t \in 1..Len(idx[name][distinct_from]) :
                    idx[name][distinct_from][t] = label
              THEN idx
              ELSE [idx EXCEPT ![name][distinct_from] = Append(@, label)]
         ELSE [idx EXCEPT ![name] = (distinct_from :> <<label>>) @@ @]
    ELSE (name :> (distinct_from :> <<label>>)) @@ idx

\* an insert that stores a fresh list over the bucket it found
insert_replace(idx, name, distinct_from, label) ==
    IF name \in DOMAIN idx
    THEN IF distinct_from \in DOMAIN idx[name]
         THEN [idx EXCEPT ![name][distinct_from] = <<label>>]
         ELSE [idx EXCEPT ![name] = (distinct_from :> <<label>>) @@ @]
    ELSE (name :> (distinct_from :> <<label>>)) @@ idx

\* lines 100-116: locate or create the name, then the identity, then push
insert_observation(idx, name, distinct_from, label) ==
    IF name \in DOMAIN idx
    THEN IF distinct_from \in DOMAIN idx[name]
         THEN [idx EXCEPT ![name][distinct_from] = Append(@, label)]
         ELSE [idx EXCEPT ![name] = (distinct_from :> <<label>>) @@ @]
    ELSE (name :> (distinct_from :> <<label>>)) @@ idx

\* lines 98-117: the body of the loop over one archive's entries
process_entry(idx, zip_entry, label, a) ==
    IF filter(zip_entry.name, a.exclude)
    THEN insert_observation(idx, zip_entry.name,
                            get_distinct_from(zip_entry, a.check), label)
    ELSE idx

\* lines 95-118 as a whole: the entries of one archive from the j-th on
RECURSIVE collect_jar(_, _, _, _, _)
collect_jar(idx, zip, j, label, a) ==
    IF j > Len(zip) THEN idx
    ELSE collect_jar(process_entry(idx, zip[j], label, a), zip, j + 1, label, a)

\* lines 55-58 as a whole, for archives that all open: input is the sequence
\* of [path, zip] pairs
RECURSIVE collect(_, _, _)
collect(idx, input, a) ==
    IF input = <<>> THEN idx
    ELSE collect(collect_jar(idx, Head(input).zip, 1,
                             get_jar_name(Head(input).path), a),
                 Tail(input), a)

\* a report filter that counts labels instead of buckets
reportable_total(v, check) == SumLabels(v, DOMAIN v) >= 2

\* a report filter without the arm for policy none
reportable_buckets(v, check) == Cardinality(DOMAIN v) >= 2

\* lines 62-65: the predicate of the report filter
reportable(v, check) ==
    IF check = "none" THEN Len(v[DISTINCT_FROM_NONE]) >= 2
    ELSE Cardinality(DOMAIN v) >= 2

\* iteration from the largest key
last_key(keys) == CHOOSE k \in keys : \A o \in keys \ {k} : StrLess(o, k)

\* BTreeMap iteration: the smallest key first
first_key(keys) == CHOOSE k \in keys : \A o \in keys \ {k} : StrLess(k, o)

\* HashMap iteration: the keys in an order the hasher decides
iteration_orders(S) ==
    {p \in [1..Cardinality(S) -> S] : \A a, b \in DOMAIN p : a # b => p[a] # p[b]}

----------------------------------------------------------------------------
(* The run *)

Init ==
    /\ pc = "start"
    /\ argv \in [jars : JarsArgs, check : CheckArgs, exclude : ExcludeArgs]
    /\ args = <<>>
    /\ paths = <<>>
    /\ x = 0
    /\ jar_name = NoString
    /\ jars = <<>>
    /\ i = 0
    /\ name_to_sources = EmptyMap
    /\ result = EmptyMap
    /\ out = <<>>
    /\ notice = 0

\* line 40: Args::parse exits with a usage error when --jars is missing or
\* the -c value is not one of the enum's
Parse ==
    /\ pc = "start"
    /\ IF argv.jars = <<>> \/ parse_check(argv.check) = NoValue
       THEN /\ pc' = "usage"
            /\ args' = args
       ELSE /\ pc' = "parsed"
            /\ args' = [jar_list |-> argv.jars[1], check |-> parse_check(argv.check),
                        exclude |-> argv.exclude]
    /\ UNCHANGED <<argv, paths, x, jar_name, jars, i, name_to_sources, result, out, notice>>

\* lines 42-52; notice is the count the message of line 44 prints, 0 before
SplitPaths ==
    /\ pc = "parsed"
    /\ paths' = split(args.jar_list, ";")
    /\ IF too_few(paths')
       THEN /\ notice' = Len(paths')
            /\ pc' = "short"
       ELSE /\ notice' = notice
            /\ pc' = "loop"
    /\ UNCHANGED <<argv, args, x, jar_name, jars, i, name_to_sources, result, out>>

\* the central directory an earlier open of the same path returned, if any
EarlierOpens(path) == {k \in 1..Len(jars) : paths[k] = path}

\* an open that skips a path it cannot open instead of panicking
OpenJar_skip ==
    /\ pc = "loop"
    /\ x < Len(paths)
    /\ x' = x + 1
    /\ LET path == paths[x + 1] IN
       IF get_jar_name(path) = NoString \/ path \notin GoodPaths
       THEN /\ pc' = "entries"
            /\ jar_name' = get_jar_name(path)
            /\ jars' = Append(jars, <<>>)
            /\ i' = 0
       ELSE /\ pc' = "entries"
            /\ jar_name' = get_jar_name(path)
            /\ \E zip \in Archives :
                  /\ \A k \in EarlierOpens(path) : jars[k] = zip
                  /\ jars' = Append(jars, zip)
            /\ i' = 0
    /\ UNCHANGED <<argv, args, paths, name_to_sources, result, out, notice>>

\* lines 55-57 and 87-93: the next path; its label, File::open, ZipArchive::new
OpenJar ==
    /\ pc = "loop"
    /\ x < Len(paths)
    /\ x' = x + 1
    /\ LET path == paths[x + 1] IN
       IF get_jar_name(path) = NoString \/ path \notin GoodPaths
       THEN /\ pc' = "panicked"
            /\ jar_name' = get_jar_name(path)
            /\ UNCHANGED <<jars, i>>
       ELSE /\ pc' = "entries"
            /\ jar_name' = get_jar_name(path)
            /\ \E zip \in Archives :
                  /\ \A k \in EarlierOpens(path) : jars[k] = zip
                  /\ jars' = Append(jars, zip)
            /\ i' = 0
    /\ UNCHANGED <<argv, args, paths, name_to_sources, result, out, notice>>

\* lines 95-117: one iteration of the loop over the entries
ProcessEntry ==
    /\ pc = "entries"
    /\ i < Len(jars[x])
    /\ i' = i + 1
    /\ name_to_sources' = process_entry(name_to_sources, jars[x][i + 1], jar_name, args)
    /\ UNCHANGED <<pc, argv, args, paths, x, jar_name, jars, result, out, notice>>

\* line 96: by_index(i).unwrap() on an entry whose local header is unreadable
ByIndexPanic ==
    /\ pc = "entries"
    /\ i < Len(jars[x])
    /\ \A k \in 1..(x - 1) : paths[k] # paths[x]
    /\ pc' = "panicked"
    /\ UNCHANGED <<argv, args, paths, x, jar_name, jars, i, name_to_sources, result, out, notice>>

\* line 95: i reached zip.len()
EndOfJar ==
    /\ pc = "entries"
    /\ i = Len(jars[x])
    /\ pc' = "loop"
    /\ UNCHANGED <<argv, args, paths, x, jar_name, jars, i, name_to_sources, result, out, notice>>

\* lines 60-66
FilterResult ==
    /\ pc = "loop"
    /\ x = Len(paths)
    /\ result' = [n \in {m \in DOMAIN name_to_sources :
                            reportable(name_to_sources[m], args.check)}
                     |-> name_to_sources[n]]
    /\ pc' = "print"
    /\ UNCHANGED <<argv, args, paths, x, jar_name, jars, i, name_to_sources, out, notice>>

\* lines 68-70: one println; a line is the name and the HashMap's pairs in
\* the order its iterator yields them
PrintLine ==
    /\ pc = "print"
    /\ DOMAIN result # {}
    /\ LET name == first_key(DOMAIN result)
           jar == result[name]
       IN  /\ \E order \in iteration_orders(DOMAIN jar) :
                 out' = Append(out, [name |-> name,
                                     jar |-> [b \in DOMAIN order |->
                                                 <<order[b], jar[order[b]]>>]])
           /\ result' = [n \in DOMAIN result \ {name} |-> result[n]]
    /\ UNCHANGED <<pc, argv, args, paths, x, jar_name, jars, i, name_to_sources, notice>>

\* line 71
Exit ==
    /\ pc = "print"
    /\ DOMAIN result = {}
    /\ pc' = "done"
    /\ UNCHANGED <<argv, args, paths, x, jar_name, jars, i, name_to_sources, result, out, notice>>

Next ==
    \/ Parse
    \/ SplitPaths
    \/ OpenJar
    \/ ProcessEntry
    \/ ByIndexPanic
    \/ EndOfJar
    \/ FilterResult
    \/ PrintLine
    \/ Exit

Spec == Init /\ [][Next]_vars

----------------------------------------------------------------------------
(* What the run has read so far, independently of the index *)

\* entries of archive k that the entry loop has passed
SeenLen(k) == IF k = Len(jars) THEN i ELSE Len(jars[k])

\* positions <<archive, entry>> passed so far
Occ == {o \in (1..Len(jars)) \X (1..MaxEntries + 1) : o[2] <= SeenLen(o[1])}

EntryAt(o) == jars[o[1]][o[2]]

\* the label of the k-th input archive: the last component of its path
LabelAt(k) ==
    LET p == paths[k]
        last_sep == IF \E q \in 1..Len(p) : p[q] = "/"
                    THEN CHOOSE q \in 1..Len(p) :
                            p[q] = "/" /\ \A r \in (q + 1)..Len(p) : p[r] # "/"
                    ELSE 0
    IN  SubSeq(p, last_sep + 1, Len(p))

\* the content identity of an entry under policy size or crc
ContentIdentity(e) == IF args.check = "size" THEN e.size ELSE e.crc32

\* occurrences of name n that pass the filter
PassOcc(n) == {o \in Occ : EntryAt(o).name = n /\ filter(n, args.exclude)}

\* the passed entries in processing order, each with its archive position
RECURSIVE ObsUpTo(_)
ObsUpTo(k) ==
    IF k = 0 THEN <<>>
    ELSE ObsUpTo(k - 1) \o [j \in 1..SeenLen(k) |-> [arc |-> k, e |-> jars[k][j]]]

ObsSeq == ObsUpTo(Len(jars))

\* identity of an observation under the policy of the run
IdentityOf(e) == IF args.check = "none" THEN 0 ELSE ContentIdentity(e)

\* labels, in processing order, of the filter-passing occurrences of n with identity id
LabelsFor(n, id) ==
    LET sel == SelectSeq(ObsSeq, LAMBDA ob : /\ ob.e.name = n
                                             /\ filter(n, args.exclude)
                                             /\ IdentityOf(ob.e) = id)
    IN  [t \in 1..Len(sel) |-> LabelAt(sel[t].arc)]

\* identities of the filter-passing occurrences of n
IdentitiesOf(n) == {IdentityOf(EntryAt(o)) : o \in PassOcc(n)}

\* number of labels the index holds under name n
LabelCount(n) ==
    IF n \in DOMAIN name_to_sources
    THEN SumLabels(name_to_sources[n], DOMAIN name_to_sources[n])
    ELSE 0

Completed == pc = "done"

\* no path is given twice
DistinctInputs == \A k1, k2 \in 1..Len(paths) : k1 # k2 => paths[k1] # paths[k2]

ReportedNames == {out[l].name : l \in 1..Len(out)}

SizeOrCrc == pc \notin {"start", "usage"} /\ args.check \in {"size", "crc"}
PolicyNone == pc \notin {"start", "usage"} /\ args.check = "none"

----------------------------------------------------------------------------
(* C1 *)

\* C1 as stated: under policy size or crc a completed run over distinct
\* archives reports a name iff the index holds at least two labels for it,
\* over all its identity buckets
C1_ReportedIffTwoLabels ==
    (Completed /\ SizeOrCrc /\ DistinctInputs) =>
        \A n \in Names : (n \in ReportedNames) <=> (LabelCount(n) >= 2)

\* C1 amended: under policy size or crc a completed run reports a name iff
\* its filter-passing occurrences carry at least two different content
\* identities; a name whose occurrences all have one identity is not reported,
\* however many archives hold it
C1_ReportedIffTwoIdentities ==
    (Completed /\ SizeOrCrc) =>
        \A n \in Names :
            (n \in ReportedNames) <=>
                (Cardinality({ContentIdentity(EntryAt(o)) : o \in PassOcc(n)}) >= 2)

\* two archives, each with Foo.class of size 10, policy size: not reported
C1_Witness ==
    /\ Completed
    /\ args.check = "size"
    /\ Len(jars) = 2
    /\ DistinctInputs
    /\ \A k \in 1..2 : \E o \in PassOcc(FOO_CLASS) : o[1] = k
    /\ \A o \in PassOcc(FOO_CLASS) : EntryAt(o).size = 10
    /\ FOO_CLASS \notin ReportedNames

----------------------------------------------------------------------------
(* C2 *)

\* C2 as stated: under policy none a completed run over distinct archives
\* reports a name iff it passes the filter in at least two of them
C2_ReportedIffTwoArchives ==
    (Completed /\ PolicyNone /\ DistinctInputs) =>
        \A n \in Names :
            (n \in ReportedNames) <=> (Cardinality({o[1] : o \in PassOcc(n)}) >= 2)

\* C2 amended: under policy none a completed run reports a name iff it has
\* at least two filter-passing occurrences in all, two occurrences inside one
\* archive included, whatever their sizes and checksums
C2_ReportedIffTwoOccurrences ==
    (Completed /\ PolicyNone) =>
        \A n \in Names : (n \in ReportedNames) <=> (Cardinality(PassOcc(n)) >= 2)

\* policy none, Foo.class in two archives with different size and checksum, reported
C2_Witness ==
    /\ Completed
    /\ PolicyNone
    /\ \E o1, o2 \in PassOcc(FOO_CLASS) :
          /\ o1[1] # o2[1]
          /\ EntryAt(o1).size # EntryAt(o2).size
          /\ EntryAt(o1).crc32 # EntryAt(o2).crc32
    /\ FOO_CLASS \in ReportedNames

----------------------------------------------------------------------------
(* C3 *)

\* C3: under policy size or crc a name with two or more different identities
\* is reported by a completed run, with one bucket per identity, each holding
\* the labels of the archives that contributed that identity
C3_OneBucketPerIdentity ==
    (Completed /\ SizeOrCrc) =>
        \A n \in Names :
            LET ids == {ContentIdentity(EntryAt(o)) : o \in PassOcc(n)}
            IN  Cardinality(ids) >= 2 =>
                    \E l \in 1..Len(out) :
                        /\ out[l].name = n
                        /\ Len(out[l].jar) = Cardinality(ids)
                        /\ {out[l].jar[b] : b \in 1..Len(out[l].jar)}
                               = {<<id, LabelsFor(n, id)>> : id \in ids}

\* A (a) with Foo.class of size 10 and B (d/b) with size 20: buckets [a] and [b]
C3_Witness ==
    /\ Completed
    /\ args.check = "size"
    /\ \E l \in 1..Len(out) :
          /\ out[l].name = FOO_CLASS
          /\ {out[l].jar[b] : b \in 1..Len(out[l].jar)}
                 = {<<10, <<<<"a">>>> >>, <<20, <<<<"b">>>> >>}

----------------------------------------------------------------------------
(* C4 *)

\* the filter as the claim words it: the class-file suffix, not under the
\* directory META-INF/, no exclusion prefix
ClaimedFilter(n) ==
    /\ ends_with(n, CLASS_SUFFIX)
    /\ ~starts_with(n, META_INF \o <<"/">>)
    /\ \A e \in 1..Len(args.exclude) : ~starts_with(n, args.exclude[e])

\* C4: at every point of collection the index holds, for every name, one
\* label per occurrence read so far when the name has the class-file suffix,
\* is not under META-INF/ and has no exclusion prefix, and none otherwise
C4_RecordedIffClaimedFilter ==
    pc \in {"entries", "loop", "print", "done"} =>
        \A n \in Names :
            LabelCount(n) = IF ClaimedFilter(n)
                            THEN Cardinality({o \in Occ : EntryAt(o).name = n})
                            ELSE 0

----------------------------------------------------------------------------
(* C5 *)

\* a path that File::open, ZipArchive::new or get_jar_name refuses
Unopenable(path) == path \notin GoodPaths

Terminated == pc \in {"usage", "short", "panicked", "done"}

\* C5: a report line exists only after every archive has been opened and
\* read to its end; a run that panicked has emitted none; a run whose list
\* holds an unopenable path, at any position, emits none and can only end
\* panicked
C5_NoPartialReport ==
    /\ out # <<>> =>
          /\ pc \in {"print", "done"}
          /\ Len(jars) = Len(paths)
          /\ \A k \in 1..Len(jars) : SeenLen(k) = Len(jars[k])
    /\ pc = "panicked" => out = <<>>
    /\ (\E k \in 1..Len(paths) : Unopenable(paths[k])) =>
          /\ out = <<>>
          /\ pc \notin {"print", "done"}
          /\ (Terminated /\ Len(paths) >= 2) => pc = "panicked"

\* the second of two archives cannot be opened after the first has put a
\* reportable name into the index
C5_Witness ==
    /\ pc = "panicked"
    /\ x = 2
    /\ Unopenable(paths[2])
    /\ \E n \in DOMAIN name_to_sources : reportable(name_to_sources[n], args.check)
    /\ out = <<>>

----------------------------------------------------------------------------
(* C6 *)

SepCount(str) == Cardinality({q \in 1..Len(str) : str[q] = ";"})

FewerThanTwoPaths == argv.jars = <<>> \/ SepCount(argv.jars[1]) = 0

UnknownPolicy == argv.check # <<>> /\ argv.check[1] \notin {"size", "crc", "none"}

\* C6: with fewer than two paths or an unknown policy value the run never
\* reaches collection (no archive opened, index empty, no report); a single
\* path with a known policy ends with the notice that counts one jar file
C6_NoCollection ==
    /\ (FewerThanTwoPaths \/ UnknownPolicy) =>
          /\ pc \in {"start", "parsed", "usage", "short"}
          /\ x = 0
          /\ jars = <<>>
          /\ name_to_sources = EmptyMap
          /\ out = <<>>
    /\ (Terminated /\ argv.jars # <<>> /\ SepCount(argv.jars[1]) = 0 /\ ~UnknownPolicy) =>
          /\ pc = "short"
          /\ notice = 1
    /\ (Terminated /\ UnknownPolicy) => pc = "usage"

\* a single existing archive: the run ended with the notice
C6_Witness ==
    /\ pc = "short"
    /\ paths = <<PATH_A>>
    /\ notice = 1
    /\ jars = <<>>

----------------------------------------------------------------------------
(* C7 *)

\* identities of the filter-passing occurrences of n, in order of first insertion
RECURSIVE FirstSeen(_, _)
FirstSeen(obs, n) ==
    IF obs = <<>> THEN <<>>
    ELSE LET front == FirstSeen(SubSeq(obs, 1, Len(obs) - 1), n)
             ob == obs[Len(obs)]
         IN  IF /\ ob.e.name = n
                /\ filter(n, args.exclude)
                /\ \A t \in 1..Len(front) : front[t] # IdentityOf(ob.e)
             THEN Append(front, IdentityOf(ob.e))
             ELSE front

NamesAscending == \A l \in 1..(Len(out) - 1) : StrLess(out[l].name, out[l + 1].name)

LabelsInAppendOrder ==
    \A l \in 1..Len(out) : \A b \in 1..Len(out[l].jar) :
        out[l].jar[b][2] = LabelsFor(out[l].name, out[l].jar[b][1])

\* C7 as stated: names ascending, each name's buckets in the order of their
\* first insertion, each bucket's labels in the order they were appended
C7_FullyOrdered ==
    /\ NamesAscending
    /\ LabelsInAppendOrder
    /\ \A l \in 1..Len(out) :
          [b \in 1..Len(out[l].jar) |-> out[l].jar[b][1]] = FirstSeen(ObsSeq, out[l].name)

\* C7 amended: names ascending and each bucket's labels in the order they
\* were appended; the buckets of one name come in any order, each identity once
C7_NamesAndLabelsOrdered ==
    /\ NamesAscending
    /\ LabelsInAppendOrder
    /\ \A l \in 1..Len(out) :
          /\ {out[l].jar[b][1] : b \in 1..Len(out[l].jar)} = IdentitiesOf(out[l].name)
          /\ Len(out[l].jar) = Cardinality(IdentitiesOf(out[l].name))

\* two lines, the second read first, and a bucket with labels of two archives
C7_Witness ==
    /\ Completed
    /\ Len(out) = 2
    /\ jars[1][1].name = P_BAR_CLASS
    /\ out[1].name = FOO_CLASS
    /\ \E b \in 1..Len(out[1].jar) : out[1].jar[b][2] = << <<"a">>, <<"b">> >>

----------------------------------------------------------------------------
(* C8 *)

InputOrders(n) ==
    {f \in [1..n -> 1..n] : \A a, b \in 1..n : a # b => f[a] # f[b]}

BagOf(seq) ==
    [v \in {seq[t] : t \in 1..Len(seq)} |-> Cardinality({t \in 1..Len(seq) : seq[t] = v})]

SameUpToLabelOrder(idx1, idx2) ==
    /\ DOMAIN idx1 = DOMAIN idx2
    /\ \A n \in DOMAIN idx1 :
          /\ DOMAIN idx1[n] = DOMAIN idx2[n]
          /\ \A id \in DOMAIN idx1[n] : BagOf(idx1[n][id]) = BagOf(idx2[n][id])

\* the archives of the run in the order f, as input of collect
Permuted(f) == [k \in 1..Len(jars) |-> [path |-> paths[f[k]], zip |-> jars[f[k]]]]

\* C8: once collection is over, collecting the same archives in any other
\* order gives the same names, the same identity buckets and the same
\* multiset of labels in each bucket, and the same set of reported names
C8_PermutationInvariant ==
    pc \in {"print", "done"} =>
        \A f \in InputOrders(Len(jars)) :
            LET idx2 == collect(EmptyMap, Permuted(f), args)
            IN  /\ SameUpToLabelOrder(idx2, name_to_sources)
                /\ {n \in DOMAIN idx2 : reportable(idx2[n], args.check)}
                       = ReportedNames \cup DOMAIN result

\* a completed run whose index differs from that of the reversed input, in label order
C8_Witness ==
    /\ Completed
    /\ Len(jars) = 2
    /\ out # <<>>
    /\ collect(EmptyMap, Permuted([k \in 1..2 |-> 3 - k]), args) # name_to_sources

----------------------------------------------------------------------------
(* C9 *)

\* archive k holds name n at two or more entries that pass the filter
Repeats(k, n) == Cardinality({o \in PassOcc(n) : o[1] = k}) >= 2

\* how often label occurs in the index under name n
LabelOccurrences(n, label) ==
    Cardinality({c \in UNION {{<<id, t>> : t \in 1..Len(name_to_sources[n][id])}
                                 : id \in DOMAIN name_to_sources[n]} :
                    name_to_sources[n][c[1]][c[2]] = label})

\* C9 as stated: a name that one archive holds twice has that archive's
\* label twice in the index and is reported, under every policy
C9_RepeatAlwaysReported ==
    Completed =>
        \A k \in 1..Len(jars) : \A n \in Names :
            Repeats(k, n) =>
                /\ LabelOccurrences(n, LabelAt(k)) >= 2
                /\ n \in ReportedNames

\* C9 amended: a name that one archive holds twice has that archive's label
\* in the index once per occurrence; it is reported under policy none, and
\* under policy size or crc iff its occurrences, over all archives, carry at
\* least two different identities
C9_RepeatReportedByPolicy ==
    Completed =>
        \A k \in 1..Len(jars) : \A n \in Names :
            Repeats(k, n) =>
                /\ LabelOccurrences(n, LabelAt(k))
                       = Cardinality({o \in PassOcc(n) : LabelAt(o[1]) = LabelAt(k)})
                /\ args.check = "none" => n \in ReportedNames
                /\ args.check # "none" =>
                       ((n \in ReportedNames) <=> Cardinality(IdentitiesOf(n)) >= 2)

\* policy none, Foo.class twice in the first archive and in no other: reported
C9_Witness ==
    /\ Completed
    /\ PolicyNone
    /\ Repeats(1, FOO_CLASS)
    /\ \A o \in PassOcc(FOO_CLASS) : o[1] = 1
    /\ FOO_CLASS \in ReportedNames

----------------------------------------------------------------------------
(* C10 *)

IsPrefix(s1, s2) == Len(s1) <= Len(s2) /\ SubSeq(s2, 1, Len(s1)) = s1

Buckets(idx) == UNION {{<<n, id>> : id \in DOMAIN idx[n]} : n \in DOMAIN idx}

BucketOf(idx, b) == IF b \in Buckets(idx) THEN idx[b[1]][b[2]] ELSE <<>>

\* nothing is removed and nothing merged: every bucket of the old index is a
\* prefix of the same bucket of the new one
NothingRemoved ==
    \A b \in Buckets(name_to_sources) :
        /\ b \in Buckets(name_to_sources')
        /\ IsPrefix(BucketOf(name_to_sources, b), BucketOf(name_to_sources', b))

\* the step passed an entry that the filter lets through
PassedEntry ==
    /\ pc = "entries"
    /\ i' = i + 1
    /\ filter(jars[x][i + 1].name, args.exclude)

AppendOnlyStep ==
    /\ NothingRemoved
    /\ IF PassedEntry
       THEN LET e == jars[x][i + 1]
                b == <<e.name, IdentityOf(e)>>
            IN  /\ BucketOf(name_to_sources', b)
                       = Append(BucketOf(name_to_sources, b), LabelAt(x))
                /\ \A o \in Buckets(name_to_sources') \ {b} :
                       BucketOf(name_to_sources', o) = BucketOf(name_to_sources, o)
       ELSE name_to_sources' = name_to_sources

LabelsMatchOccurrences == \A n \in Names : LabelCount(n) = Cardinality(PassOcc(n))

\* C10: every step leaves each bucket a prefix of itself; a step that passes
\* a filter-passing entry appends one label to the bucket of its name and
\* identity and changes no other bucket, every other step changes nothing;
\* always, the labels under a name are as many as its filter-passing
\* occurrences read so far
C10_AppendOnly == []LabelsMatchOccurrences /\ [][AppendOnlyStep]_vars

\* an index where one bucket holds two labels and the same name has a second bucket
C10_Witness ==
    /\ pc = "entries"
    /\ \E n \in DOMAIN name_to_sources :
          /\ Cardinality(DOMAIN name_to_sources[n]) = 2
          /\ \E id \in DOMAIN name_to_sources[n] : Len(name_to_sources[n][id]) = 2

====
